---- MODULE Spec2Model ----
(***************************************************************************)
(* CV portal: the validate-cv-data background task, the aggregation of the *)
(* AI model's per-field verdicts (processValidationResults) and the upload *)
(* endpoint that creates the records the task validates.                   *)
(***************************************************************************)
EXTENDS Integers, Sequences, FiniteSets, TLC

(***************************************************************************)
(* Bounds of the model.                                                    *)
(***************************************************************************)
\* longest verdict list enumerated with every combination of attributes
MaxLen == 2
\* longest verdict list enumerated by status counts only
MaxLongLen == 10
\* longest verdict list enumerated by confidences
MaxConfLen == 3

\* an absent value (null / undefined) in a slot that otherwise holds an object
Null == [null |-> TRUE]

(***************************************************************************)
(* Verdicts (ValidationField).  The status is typed as one of four values, *)
(* but the reply is JSON.parse'd and cast without a check, so any other    *)
(* string can arrive: "other" stands for every status outside the four.    *)
(* confidence is kept in hundredths.                                       *)
(***************************************************************************)
Statuses == {"match", "partial_match", "no_match", "not_found", "other"}
Fields == {"fullName", "email"}
Reasons == {"differs", "absent"}
Confidences == {80, 100}

ValidationField ==
  [field : Fields, status : Statuses, confidence : Confidences, reason : Reasons]

\* template literal `${field.field}: ${field.reason}`
FieldError(field) == field.field \o ": " \o field.reason

InsufficientMatches == "Insufficient matches found between form data and PDF content"

\* Math.ceil(totalChecked * 0.7); 0.7 * n rounds to the exact product's
\* ceiling for every n in range, so the integer form is the same number
CeilSeventyPercent(totalChecked) == (7 * totalChecked + 9) \div 10

\* the counters and the error list before the loop
TallyInit ==
  [matchCount |-> 0, partialMatchCount |-> 0, noMatchCount |-> 0,
   totalChecked |-> 0, errors |-> << >>]

\* TallyField with the error entry reduced to the reason
TallyFieldReasonOnly(acc, field) ==
  LET counted ==
        IF field.status = "match"
          THEN [acc EXCEPT !.matchCount = @ + 1]
        ELSE IF field.status = "partial_match"
          THEN [acc EXCEPT !.partialMatchCount = @ + 1]
        ELSE IF field.status = "no_match"
          THEN [acc EXCEPT !.noMatchCount = @ + 1,
                           !.errors = Append(@, field.reason)]
        ELSE acc
  IN IF field.status # "not_found"
       THEN [counted EXCEPT !.totalChecked = @ + 1]
       ELSE counted

\* TallyField with totalChecked counting every verdict
TallyFieldCountsAll(acc, field) ==
  LET counted ==
        IF field.status = "match"
          THEN [acc EXCEPT !.matchCount = @ + 1]
        ELSE IF field.status = "partial_match"
          THEN [acc EXCEPT !.partialMatchCount = @ + 1]
        ELSE IF field.status = "no_match"
          THEN [acc EXCEPT !.noMatchCount = @ + 1,
                           !.errors = Append(@, FieldError(field))]
        ELSE acc
  IN [counted EXCEPT !.totalChecked = @ + 1]

\* TallyField that counts a match only when its confidence is above 0
TallyFieldNeedsConfidence(acc, field) ==
  LET counted ==
        IF field.status = "match" /\ field.confidence > 0
          THEN [acc EXCEPT !.matchCount = @ + 1]
        ELSE IF field.status = "partial_match"
          THEN [acc EXCEPT !.partialMatchCount = @ + 1]
        ELSE IF field.status = "no_match"
          THEN [acc EXCEPT !.noMatchCount = @ + 1,
                           !.errors = Append(@, FieldError(field))]
        ELSE acc
  IN IF field.status # "not_found"
       THEN [counted EXCEPT !.totalChecked = @ + 1]
       ELSE counted

\* one iteration of `for (const field of fields)`
TallyField(acc, field) ==
  LET counted ==
        IF field.status = "match"
          THEN [acc EXCEPT !.matchCount = @ + 1]
        ELSE IF field.status = "partial_match"
          THEN [acc EXCEPT !.partialMatchCount = @ + 1]
        ELSE IF field.status = "no_match"
          THEN [acc EXCEPT !.noMatchCount = @ + 1,
                           !.errors = Append(@, FieldError(field))]
        ELSE acc
  IN IF field.status # "not_found"
       THEN [counted EXCEPT !.totalChecked = @ + 1]
       ELSE counted

RECURSIVE TallyFrom(_, _, _)
TallyFrom(fields, i, acc) ==
  IF i > Len(fields) THEN acc
  ELSE TallyFrom(fields, i + 1, TallyField(acc, fields[i]))

Tally(fields) == TallyFrom(fields, 1, TallyInit)

\* DetermineStatus with the threshold compared by > instead of >=
DetermineStatusStrictThreshold(acc) ==
  IF acc.noMatchCount > 0 THEN "failed"
  ELSE IF acc.matchCount = acc.totalChecked /\ acc.totalChecked > 0 THEN "validated"
  ELSE IF acc.matchCount + acc.partialMatchCount > CeilSeventyPercent(acc.totalChecked)
    THEN "validated"
  ELSE "failed"

\* DetermineStatus with only full matches counted towards the threshold
DetermineStatusMatchesOnly(acc) ==
  IF acc.noMatchCount > 0 THEN "failed"
  ELSE IF acc.matchCount = acc.totalChecked /\ acc.totalChecked > 0 THEN "validated"
  ELSE IF acc.matchCount >= CeilSeventyPercent(acc.totalChecked)
    THEN "validated"
  ELSE "failed"

\* the if / else-if chain that determines overallStatus
DetermineStatus(acc) ==
  IF acc.noMatchCount > 0 THEN "failed"
  ELSE IF acc.matchCount = acc.totalChecked /\ acc.totalChecked > 0 THEN "validated"
  ELSE IF acc.matchCount + acc.partialMatchCount >= CeilSeventyPercent(acc.totalChecked)
    THEN "validated"
  ELSE "failed"

\* FinalErrors with the generic message pushed after the chain, whenever no
\* per-field error was recorded
FinalErrorsAfterChain(acc) ==
  IF Len(acc.errors) = 0 THEN Append(acc.errors, InsufficientMatches)
  ELSE acc.errors

\* FinalErrors without the generic message
FinalErrorsNoGeneric(acc) == acc.errors

\* errors after the chain: the last branch pushes the generic message when
\* no per-field error was recorded
FinalErrors(acc) ==
  IF acc.noMatchCount > 0 THEN acc.errors
  ELSE IF acc.matchCount = acc.totalChecked /\ acc.totalChecked > 0 THEN acc.errors
  ELSE IF acc.matchCount + acc.partialMatchCount >= CeilSeventyPercent(acc.totalChecked)
    THEN acc.errors
  ELSE IF Len(acc.errors) = 0 THEN Append(acc.errors, InsufficientMatches)
  ELSE acc.errors

RECURSIVE SumConfidence(_, _)
SumConfidence(fields, i) ==
  IF i > Len(fields) THEN 0
  ELSE fields[i].confidence + SumConfidence(fields, i + 1)

\* OverallConfidence averaged over the checked verdicts only
OverallConfidenceOfChecked(fields) ==
  LET checked == SelectSeq(fields, LAMBDA f : f.status # "not_found")
  IN [num |-> SumConfidence(checked, 1),
      den |-> IF Len(checked) > 1 THEN Len(checked) ELSE 1]

\* fields.reduce(sum + confidence, 0) / Math.max(fields.length, 1), kept as
\* the exact quotient num / den of hundredths
OverallConfidence(fields) ==
  [num |-> SumConfidence(fields, 1),
   den |-> IF Len(fields) > 1 THEN Len(fields) ELSE 1]

processValidationResults(aiResponse) ==
  LET fields == aiResponse.fields
      acc == Tally(fields)
  IN [overallStatus |-> DetermineStatus(acc),
      processedResults |->
        [fields |-> fields,
         summary |-> [totalChecked |-> acc.totalChecked,
                      matchCount |-> acc.matchCount,
                      partialMatchCount |-> acc.partialMatchCount,
                      noMatchCount |-> acc.noMatchCount,
                      overallConfidence |-> OverallConfidence(fields)]],
      errors |-> FinalErrors(acc)]

(***************************************************************************)
(* Verdict lists handed to the aggregator.                                 *)
(***************************************************************************)
ShortLists == UNION {[1..n -> ValidationField] : n \in 0..MaxLen}

\* a run of n verdicts of one status
Block(status, n) ==
  [i \in 1..n |-> [field |-> "fullName", status |-> status,
                   confidence |-> 80, reason |-> "differs"]]

\* lists given by how many verdicts of each status they hold
LongLists ==
  {Block("match", a) \o Block("partial_match", b) \o Block("other", c)
     \o Block("no_match", d) \o Block("not_found", e) :
   <<a, b, c, d, e>> \in
     {q \in (0..MaxLongLen) \X (0..MaxLongLen) \X (0..MaxLongLen) \X (0..2) \X (0..2) :
        q[1] + q[2] + q[3] + q[4] + q[5] <= MaxLongLen}}

\* lists given by their confidences, over matched and not-found verdicts
ConfidenceLists ==
  UNION {[1..n -> [field : {"fullName"}, status : {"match", "not_found"},
                   confidence : {0, 80, 90, 100}, reason : {"differs"}]] :
         n \in 0..MaxConfLen}

\* lists whose verdicts carry the optional extractedValue
ExtractedLists ==
  UNION {[1..n -> [field : {"fullName"}, status : Statuses, confidence : {80},
                   reason : {"differs"}, extractedValue : {"Jane", "J."}]] :
         n \in 0..MaxLen}

VerdictLists == ShortLists \cup LongLists \cup ConfidenceLists \cup ExtractedLists

(***************************************************************************)
(* Upload endpoint (cvRouter.upload) inputs.  Text that the code inspects  *)
(* is a tuple of characters.                                               *)
(***************************************************************************)
MAX_FILE_SIZE == 10 * 1024 * 1024
PDF_MAGIC_BYTES == <<37, 80, 68, 70>>
PNG_MAGIC_BYTES == <<137, 80, 78, 71>>

LowerName == <<"c", "v", ".", "p", "d", "f">>
UpperName == <<"C", "V", ".", "P", "D", "F">>
ImageName == <<"c", "v", ".", "p", "n", "g">>

\* String.prototype.toLowerCase on the characters used
LowerChar(c) ==
  CASE c = "C" -> "c" [] c = "V" -> "v" [] c = "P" -> "p"
    [] c = "D" -> "d" [] c = "F" -> "f" [] OTHER -> c

toLowerCase(str) == [i \in 1..Len(str) |-> LowerChar(str[i])]

endsWith(str, suffix) ==
  /\ Len(str) >= Len(suffix)
  /\ SubSeq(str, Len(str) - Len(suffix) + 1, Len(str)) = suffix

includes(str, part) ==
  \E i \in 1..(Len(str) + 1) :
    /\ i + Len(part) - 1 <= Len(str)
    /\ SubSeq(str, i, i + Len(part) - 1) = part

\* a decoded upload: its byte length, its first four bytes, its file name
\* and the identity of its bytes
Files ==
  [length : {4, MAX_FILE_SIZE, MAX_FILE_SIZE + 1},
   magicBytes : {PDF_MAGIC_BYTES, PNG_MAGIC_BYTES},
   fileName : {LowerName, UpperName, ImageName},
   bytes : {"cvA", "cvB"}]

\* the uploads drawn while the validation task is explored
TaskFiles ==
  {f \in Files : /\ f.length = 4
                 /\ f.bytes = "cvA"
                 /\ f.fileName = LowerName}

PutOutcomes == {"ok", "ECONNREFUSED", "error"}

\* Date.now() values
Timestamps == {1, 2}
\* the one drawn while the validation task is explored
TaskTimestamps == {1}

\* validateFileContent with the first bytes looked at before the size
validateFileContentMagicFirst(file) ==
  IF file.magicBytes # PDF_MAGIC_BYTES
    THEN "Invalid file format. Only PDF files are allowed."
  ELSE IF file.length > MAX_FILE_SIZE
    THEN "File too large. Maximum size is 10MB"
  ELSE IF ~endsWith(toLowerCase(file.fileName), <<".", "p", "d", "f">>)
    THEN "Invalid file extension. Only .pdf files are allowed."
  ELSE "ok"

\* validateFileContent: the thrown message, or "ok" when it returns the buffer
validateFileContent(file) ==
  IF file.length > MAX_FILE_SIZE
    THEN "File too large. Maximum size is 10MB"
  ELSE IF file.magicBytes # PDF_MAGIC_BYTES
    THEN "Invalid file format. Only PDF files are allowed."
  ELSE IF ~endsWith(toLowerCase(file.fileName), <<".", "p", "d", "f">>)
    THEN "Invalid file extension. Only .pdf files are allowed."
  ELSE "ok"

\* `${timestamp}-${fileName}`; the timestamp is digits only, so the pair
\* determines the string and the string the pair
UniqueFileName(timestamp, fileName) == <<timestamp, fileName>>

UploadSuccess == "CV uploaded successfully. AI validation is in progress."
StorageUnavailable == "Storage service is currently unavailable. Please try again later."
UploadFailed == "Failed to upload CV. Please try again."

(***************************************************************************)
(* Validation task (validateCvDataTask) data.                              *)
(***************************************************************************)
\* number of records the database may hold
MaxRecords == 2
\* number of runs of the validation task
MaxTasks == 2

RecordIds == 1..MaxRecords
\* payload.cvId absent (undefined): falsy in `payload?.cvId`
NoCvId == 0
\* a cvId string that names no record
GhostId == MaxRecords + 1

\* the URL of a document that is not a PDF, as an external trigger may send
ImageUrl == <<0, ImageName>>

\* error messages raised inside the task
ZodError == "Invalid payload"
RecordNotFound == "Record to update not found."
DatabaseDown == "Can't reach database server"
DownloadFailed == "The specified key does not exist."
OpenRouterError == "OpenRouter API error"
NoResponse == "No response from OpenAI"
JsonSyntaxError == "Unexpected token in JSON"

ReplyField(status) ==
  [field |-> "email", status |-> status, confidence |-> 100, reason |-> "absent"]

\* the verdict lists a model reply holds in the task runs: one for each way
\* the aggregation can end (validated, failed on a no_match, failed on the
\* threshold)
ReplyLists ==
  {<<ReplyField("match")>>, <<ReplyField("no_match")>>, <<ReplyField("other")>>}

\* what the call to the model ends in: a thrown error, or a reply that
\* parses to a verdict list
ModelOutcomes ==
  [kind : {"http", "empty", "badjson"}, fields : {<< >>}]
    \cup [kind : {"json"}, fields : ReplyLists]

\* the row the database creates: validationStatus defaults to 'pending',
\* validationErrors to an empty array, the other two columns to NULL
NewRecord(fileName, fileUrl) ==
  [fileName |-> fileName, fileUrl |-> fileUrl,
   validationStatus |-> "pending", validationResults |-> Null,
   validationErrors |-> << >>, validatedAt |-> FALSE]

\* ShapeOk with the formData schema left unchecked
ShapeOkCvIdOnly(payload) == payload.cvId # NoCvId

\* CVValidationPayload.parse succeeds
ShapeOk(payload) == payload.cvId # NoCvId /\ payload.formDataOk

\* isPdf: the lower-cased URL includes 'pdf'
IsPdf(payload) == includes(toLowerCase(payload.fileUrl[2]), <<"p", "d", "f">>)

(***************************************************************************)
(* The model's reply text (message.content) and its cleaning before        *)
(* JSON.parse.  Text is a tuple of characters.                             *)
(***************************************************************************)
\* the backquote character
Backtick == "BACKQUOTE"

Fence == <<Backtick, Backtick, Backtick>>
JsonTag == <<"j", "s", "o", "n">>
\* stands for every language tag other than json
OtherTag == <<"j", "s">>

IsSpace(c) == c \in {" ", "\n"}

\* String.prototype.trim
RECURSIVE trim(_)
trim(str) ==
  IF Len(str) = 0 THEN str
  ELSE IF IsSpace(str[1]) THEN trim(Tail(str))
  ELSE IF IsSpace(str[Len(str)]) THEN trim(SubSeq(str, 1, Len(str) - 1))
  ELSE str

startsWith(str, prefix) ==
  /\ Len(str) >= Len(prefix)
  /\ SubSeq(str, 1, Len(prefix)) = prefix

\* the first index from i on that holds no white space, Len(str) + 1 if none
RECURSIVE SkipSpace(_, _)
SkipSpace(str, i) ==
  IF i <= Len(str) /\ IsSpace(str[i]) THEN SkipSpace(str, i + 1) ELSE i

\* str.replace(/<opening>\s*/, ''): the first occurrence of opening, with
\* the white space that follows it, is removed
ReplaceOpening(str, opening) ==
  LET hits == {i \in 1..Len(str) :
                 /\ i + Len(opening) - 1 <= Len(str)
                 /\ SubSeq(str, i, i + Len(opening) - 1) = opening}
  IN IF hits = {} THEN str
     ELSE LET i == CHOOSE i \in hits : \A h \in hits : i <= h
          IN SubSeq(str, 1, i - 1) \o SubSeq(str, SkipSpace(str, i + Len(opening)), Len(str))

\* str.replace(/\s*```$/, ''): a fence at the very end is removed with the
\* white space before it
ReplaceClosing(str) ==
  IF endsWith(str, Fence)
    THEN LET body == SubSeq(str, 1, Len(str) - Len(Fence))
             kept == {n \in 0..Len(body) :
                        \A k \in (n + 1)..Len(body) : IsSpace(body[k])}
         IN SubSeq(body, 1, CHOOSE n \in kept : \A m \in kept : n <= m)
    ELSE str

\* CleanResponse that knows the bare fence only
CleanResponseBareFenceOnly(aiText) ==
  LET trimmed == trim(aiText) IN
  IF startsWith(trimmed, Fence)
    THEN ReplaceClosing(ReplaceOpening(trimmed, Fence))
  ELSE trimmed

\* cleanedResponse: trim, then the ```json branch or the ``` branch
CleanResponse(aiText) ==
  LET trimmed == trim(aiText) IN
  IF startsWith(trimmed, Fence \o JsonTag)
    THEN ReplaceClosing(ReplaceOpening(trimmed, Fence \o JsonTag))
  ELSE IF startsWith(trimmed, Fence)
    THEN ReplaceClosing(ReplaceOpening(trimmed, Fence))
  ELSE trimmed

\* JSON documents the model may answer with: an object, the same with inner
\* white space, and one whose string value holds a fence
JsonTexts ==
  {<<"{", "}">>, <<"{", " ", "}">>, <<"{", Backtick, Backtick, Backtick, "}">>}

\* JSON.parse succeeds: the text is a document with white space around it
Parses(text) == trim(text) \in JsonTexts

SpaceRuns == {<< >>, <<"\n">>, <<" ">>}

\* a document inside fences, with the given tag after the opening fence
Fenced(tag, body) ==
  {lead \o Fence \o tag \o inner1 \o body \o inner2 \o Fence \o trail :
     lead \in SpaceRuns, inner1 \in SpaceRuns \ {<< >>},
     inner2 \in SpaceRuns, trail \in SpaceRuns}

\* a document with white space around it and no fence
Unfenced(body) == {lead \o body \o trail : lead \in SpaceRuns, trail \in SpaceRuns}

\* the reply texts enumerated
Contents ==
  UNION {Unfenced(body) \cup Fenced(<< >>, body) \cup Fenced(JsonTag, body)
           \cup Fenced(OtherTag, body) : body \in JsonTexts}

Event(op, id, value, ok) == [op |-> op, id |-> id, value |-> value, ok |-> ok]

VARIABLES
  aiResponse,   \* the parsed model reply given to processValidationResults
  returned,     \* what processValidationResults returned for it, or Null
  records,      \* table CV: record id -> row, Null while not created
  objects,      \* bucket 'cvs': the stored objects, one per object name
  response,     \* what the last upload call returned or threw
  tasks,        \* the runs of validate-cv-data, in trigger order
  content,      \* a reply text of the model (message.content)
  cleanedResponse, \* what the cleaning made of it and whether it parses, or Null
  call,         \* the input of the last upload call and what its services did
  sent,         \* history: the bytes sent by the upload that created each record
  picked,       \* CVForm: the file last chosen in the file input, or Null
  cvFile,       \* CVForm: formData.cvFile, or Null
  formErrorMessage, \* CVForm: errorMessage, the message shown above the form
  cvId,         \* CVForm: the id the last successful upload returned, or NoCvId
  query         \* CVForm: the getValidationStatus query of cvId

aggVars == <<aiResponse, returned>>
sysVars == <<records, objects, response, tasks, call, sent>>
cleanVars == <<content, cleanedResponse>>
pollVars == <<cvId, query>>
formVars == <<picked, cvFile, formErrorMessage, cvId, query>>
vars == <<aiResponse, returned, records, objects, response, tasks, content,
         cleanedResponse, call, sent, picked, cvFile, formErrorMessage, cvId,
         query>>

Created == {id \in RecordIds : records[id] # Null}

Exists(id) == id \in RecordIds /\ records[id] # Null

NewTask(payload) ==
  [payload |-> payload, pc |-> "queued", err |-> "",
   reply |-> << >>, trace |-> << >>]

\* no reply text is being cleaned
InitClean ==
  /\ content = << >>
  /\ cleanedResponse = Null

\* query.state.data?.validationStatus is pending or validating
StillRunning(data) ==
  /\ data # Null
  /\ data.validationStatus \in {"pending", "validating"}

\* refetchInterval that goes on after a terminal status was fetched
refetchIntervalWhileData(data) == IF data # Null THEN 3000 ELSE 0

\* the refetchInterval option: 3000 ms, or 0 for `false` (no timer)
refetchInterval(data) == IF StillRunning(data) THEN 3000 ELSE 0

\* the query of a new key: no data, no fetch made, no timer
NewQuery == [data |-> Null, interval |-> 0, fetched |-> "none"]

\* the form as mounted: no file chosen, no message, no id
InitForm ==
  /\ picked = Null
  /\ cvFile = Null
  /\ formErrorMessage = ""
  /\ cvId = NoCvId
  /\ query = NewQuery

InitSys ==
  /\ records = [id \in RecordIds |-> Null]
  /\ objects = {}
  /\ response = Null
  /\ tasks = << >>
  /\ call = Null
  /\ sent = << >>

(***************************************************************************)
(* cvRouter.upload, as one step: file check, putObject, cV.create,         *)
(* tasks.trigger and the reply.                                            *)
(***************************************************************************)
Reply(success, id, message) == [success |-> success, id |-> id, message |-> message]

\* minioClient.putObject: an object of the same name is replaced
PutObject(name, bytes) ==
  {o \in objects : o.name # name} \cup {[name |-> name, bytes |-> bytes]}

\* Date.now() does not run backwards past a name already generated
ClockAllows(timestamp) == \A o \in objects : o.name[1] <= timestamp

\* the payload upload hands to tasks.trigger
UploadPayload(id, fileUrl) ==
  [cvId |-> id, fileUrl |-> fileUrl, formDataOk |-> TRUE]

\* TriggerReply with a failed trigger reported as a failed upload
TriggerReplyReportsFailure(id, triggerOk) ==
  IF triggerOk THEN Reply(TRUE, id, UploadSuccess)
  ELSE Reply(FALSE, 0, UploadFailed)

\* what upload returns after the trigger attempt: the inner catch logs a
\* failed trigger and the success reply is returned all the same
TriggerReply(id, triggerOk) == Reply(TRUE, id, UploadSuccess)

Upload(file, timestamp, put, createOk, triggerOk) ==
  LET checked == validateFileContent(file)
      uniqueFileName == UniqueFileName(timestamp, file.fileName)
      id == Cardinality(Created) + 1
  IN
  /\ ClockAllows(timestamp)
  /\ UNCHANGED <<aggVars, cleanVars>>
  /\ call' = [file |-> file,
               timestamp |-> IF checked = "ok" THEN timestamp ELSE 0,
               put |-> IF checked = "ok" THEN put ELSE "not called",
               create |-> IF checked # "ok" \/ put # "ok" THEN "not called"
                          ELSE IF createOk THEN "ok" ELSE "error",
               trigger |-> IF checked # "ok" \/ put # "ok" \/ ~createOk
                             THEN "not called"
                           ELSE IF triggerOk THEN "ok" ELSE "error"]
  /\ IF checked # "ok"
       THEN /\ response' = Reply(FALSE, 0, checked)
            /\ UNCHANGED <<records, objects, tasks, sent>>
     ELSE IF put # "ok"
       THEN /\ response' = Reply(FALSE, 0, IF put = "ECONNREFUSED"
                                             THEN StorageUnavailable
                                             ELSE UploadFailed)
            /\ UNCHANGED <<records, objects, tasks, sent>>
     ELSE IF ~createOk
       THEN /\ objects' = PutObject(uniqueFileName, file.bytes)
            /\ response' = Reply(FALSE, 0, UploadFailed)
            /\ UNCHANGED <<records, tasks, sent>>
     ELSE /\ id \in RecordIds
          /\ triggerOk => Len(tasks) < MaxTasks
          /\ objects' = PutObject(uniqueFileName, file.bytes)
          /\ records' = [records EXCEPT ![id] = NewRecord(uniqueFileName, uniqueFileName)]
          /\ tasks' = IF triggerOk
                        THEN Append(tasks, NewTask(UploadPayload(id, uniqueFileName)))
                        ELSE tasks
          /\ sent' = Append(sent, file.bytes)
          /\ response' = TriggerReply(id, triggerOk)

(***************************************************************************)
(* CVForm: the file input's change handler and the submit handler, which   *)
(* sends formData.cvFile to cvRouter.upload.                               *)
(***************************************************************************)
MimeTypes == {"application/pdf", "image/png"}

\* the File objects the browser hands to the form: a MIME type and content
BrowserFiles == [type : MimeTypes, file : {f \in Files : f.bytes = "cvA"}]

PleaseSelectPdf == "Please select a PDF file"
FileTooLarge == "File too large. Maximum size is 10MB"
PleaseSelectFile == "Please select a CV file"

\* the checks of handleFileChange: the message it sets, "" when it keeps
\* the file
handleFileChange(file) ==
  IF file.type # "application/pdf" THEN PleaseSelectPdf
  ELSE IF file.file.length > MAX_FILE_SIZE THEN FileTooLarge
  ELSE ""

HandleFileChange(file) ==
  /\ picked' = file
  /\ formErrorMessage' = handleFileChange(file)
  /\ cvFile' = IF handleFileChange(file) = "" THEN file ELSE cvFile
  /\ UNCHANGED <<aggVars, cleanVars, sysVars, pollVars>>

\* handleSubmit with uploadCV's onSuccess and onError
HandleSubmit(timestamp, put, createOk, triggerOk) ==
  IF cvFile = Null
    THEN /\ formErrorMessage' = PleaseSelectFile
         /\ UNCHANGED <<picked, cvFile, aggVars, cleanVars, sysVars, pollVars>>
    ELSE /\ Upload(cvFile.file, timestamp, put, createOk, triggerOk)
         /\ formErrorMessage' = IF response'.success THEN "" ELSE response'.message
         /\ cvId' = IF response'.success THEN response'.id ELSE cvId
         /\ query' = IF response'.success THEN NewQuery ELSE query
         /\ UNCHANGED <<picked, cvFile>>

\* resetForm, offered by the panels shown for validated and for failed
ResetForm ==
  /\ query.data # Null
  /\ query.data.validationStatus \in {"validated", "failed"}
  /\ picked' = Null
  /\ cvFile' = Null
  /\ formErrorMessage' = ""
  /\ cvId' = NoCvId
  /\ query' = NewQuery
  /\ UNCHANGED <<aggVars, cleanVars, sysVars>>

\* cvRouter.getValidationStatus: the selected columns, Null when it throws
getValidationStatus(id, dbOk) ==
  IF Exists(id) /\ dbOk
    THEN [validationStatus |-> records[id].validationStatus]
    ELSE Null

\* one fetch of the query: the one made when it is enabled, or one made by
\* the refetch timer; a fetch that fails leaves the data as it was
FetchStatus(dbOk) ==
  LET fetchedRow == getValidationStatus(cvId, dbOk)
      data == IF fetchedRow # Null THEN fetchedRow ELSE query.data
  IN
  /\ cvId # NoCvId
  /\ query.fetched = "none" \/ query.interval = 3000
  /\ query' = [data |-> data,
                interval |-> refetchInterval(data),
                fetched |-> IF query.fetched = "none" THEN "enabled" ELSE "interval"]
  /\ UNCHANGED <<aggVars, cleanVars, sysVars, picked, cvFile, formErrorMessage, cvId>>

(***************************************************************************)
(* validate-cv-data triggered from outside the upload endpoint (the task   *)
(* is a public entry point: dashboard runs, replays, other callers).  Its  *)
(* payload is whatever the caller sends.                                   *)
(***************************************************************************)
ExternalPayloads ==
  [cvId : Created \cup {NoCvId, GhostId},
   fileUrl : {records[id].fileUrl : id \in Created} \cup {ImageUrl},
   formDataOk : BOOLEAN]

TriggerTask(payload) ==
  /\ Len(tasks) < MaxTasks
  /\ tasks' = Append(tasks, NewTask(payload))
  /\ UNCHANGED <<aggVars, cleanVars, formVars, records, objects, response, call, sent>>

(***************************************************************************)
(* validateCvDataTask.run, one step per awaited operation.                 *)
(***************************************************************************)
\* CanWrite of an update guarded by the record's status: a terminal record is
\* not written again
CanWriteUnlessTerminal(id, dbOk) ==
  /\ Exists(id)
  /\ dbOk
  /\ records[id].validationStatus \notin {"validated", "failed"}

\* prisma.cV.update resolves: the row exists and the database answers
CanWrite(id, dbOk) == Exists(id) /\ dbOk

WriteError(id) == IF Exists(id) THEN DatabaseDown ELSE RecordNotFound

\* data of the update that enters validating
ValidatingUpdate(rec) == [rec EXCEPT !.validationStatus = "validating"]

\* ResultUpdate that stores the status and errors without the results
ResultUpdateWithoutResults(rec, res) ==
  [rec EXCEPT !.validationStatus = res.overallStatus,
              !.validationErrors = res.errors,
              !.validatedAt = TRUE]

\* ResultUpdate that leaves the stored errors as they were
ResultUpdateKeepsErrors(rec, res) ==
  [rec EXCEPT !.validationStatus = res.overallStatus,
              !.validationResults = res.processedResults,
              !.validatedAt = TRUE]

\* data of the update that stores the outcome
ResultUpdate(rec, res) ==
  [rec EXCEPT !.validationStatus = res.overallStatus,
              !.validationResults = res.processedResults,
              !.validationErrors = res.errors,
              !.validatedAt = TRUE]

\* FailureUpdate that puts the record back to pending for another attempt
FailureUpdateResets(rec, errorMessage) ==
  [rec EXCEPT !.validationStatus = "pending",
              !.validationErrors = <<errorMessage>>,
              !.validatedAt = TRUE]

\* FailureUpdate that adds the message to the errors already stored
FailureUpdateAppends(rec, errorMessage) ==
  [rec EXCEPT !.validationStatus = "failed",
              !.validationErrors = Append(@, errorMessage),
              !.validatedAt = TRUE]

\* FailureUpdate that sets no validatedAt
FailureUpdateNoTimestamp(rec, errorMessage) ==
  [rec EXCEPT !.validationStatus = "failed",
              !.validationErrors = <<errorMessage>>]

\* data of the update in the catch block
FailureUpdate(rec, errorMessage) ==
  [rec EXCEPT !.validationStatus = "failed",
              !.validationErrors = <<errorMessage>>,
              !.validatedAt = TRUE]

Throw(t, message, events) ==
  tasks' = [tasks EXCEPT ![t].pc = "catch", ![t].err = message, ![t].reply = << >>,
                         ![t].trace = @ \o events]

Advance(t, pc, events) ==
  tasks' = [tasks EXCEPT ![t].pc = pc, ![t].reply = << >>, ![t].trace = @ \o events]

\* Return with an exception raised after the outcome was stored
ReturnThrows(t, events) == Throw(t, "logger failure", events)

\* the log line and the `return` after the outcome was stored
Return(t, events) == Advance(t, "done", events)

\* CVValidationPayload.parse, then the update to validating
Begin(t, dbOk) ==
  LET p == tasks[t].payload IN
  /\ tasks[t].pc = "queued"
  /\ UNCHANGED <<aggVars, cleanVars, formVars, objects, response, call, sent>>
  /\ IF ~ShapeOk(p)
       THEN /\ Throw(t, ZodError, << >>)
            /\ UNCHANGED records
     ELSE IF CanWrite(p.cvId, dbOk)
       THEN /\ records' = [records EXCEPT ![p.cvId] = ValidatingUpdate(@)]
            /\ Advance(t, "validating", <<Event("write", p.cvId, "validating", TRUE)>>)
     ELSE /\ Throw(t, WriteError(p.cvId), <<Event("write", p.cvId, "validating", FALSE)>>)
          /\ UNCHANGED records

\* the PDF branch: fetch of the public URL, then the authenticated getObject
FetchDocument(t, outcome) ==
  LET p == tasks[t].payload
      stored == \E o \in objects : o.name = p.fileUrl
  IN
  /\ tasks[t].pc = "validating"
  /\ IsPdf(p)
  /\ outcome = "ok" => stored
  /\ UNCHANGED <<aggVars, cleanVars, formVars, records, objects, response, call, sent>>
  /\ IF outcome = "fail"
       THEN Throw(t, DownloadFailed, <<Event("fetch", p.cvId, outcome, FALSE)>>)
       ELSE Advance(t, "fetched", <<Event("fetch", p.cvId, outcome, TRUE)>>)

\* the chat-completion request, the checks of the reply and JSON.parse
CallModel(t, outcome) ==
  LET p == tasks[t].payload IN
  /\ \/ tasks[t].pc = "fetched"
     \/ tasks[t].pc = "validating" /\ ~IsPdf(p)
  /\ UNCHANGED <<aggVars, cleanVars, formVars, records, objects, response, call, sent>>
  /\ IF outcome.kind = "json"
       THEN tasks' = [tasks EXCEPT ![t].pc = "replied", ![t].reply = outcome.fields,
                                   ![t].trace = Append(@, Event("model", p.cvId, "json", TRUE))]
       ELSE Throw(t, CASE outcome.kind = "http" -> OpenRouterError
                       [] outcome.kind = "empty" -> NoResponse
                       [] OTHER -> JsonSyntaxError,
                  <<Event("model", p.cvId, outcome.kind, FALSE)>>)

\* processValidationResults and the update that stores the outcome
WriteResult(t, dbOk) ==
  LET p == tasks[t].payload
      res == processValidationResults([fields |-> tasks[t].reply])
  IN
  /\ tasks[t].pc = "replied"
  /\ UNCHANGED <<aggVars, cleanVars, formVars, objects, response, call, sent>>
  /\ IF CanWrite(p.cvId, dbOk)
       THEN /\ records' = [records EXCEPT ![p.cvId] = ResultUpdate(@, res)]
            /\ Return(t, <<Event("write", p.cvId, res.overallStatus, TRUE)>>)
       ELSE /\ Throw(t, WriteError(p.cvId), <<Event("write", p.cvId, res.overallStatus, FALSE)>>)
            /\ UNCHANGED records

\* the catch block: the update to failed when payload.cvId is truthy (its
\* own failure is logged and dropped), then `throw error`
HandleError(t, dbOk) ==
  LET p == tasks[t].payload IN
  /\ tasks[t].pc = "catch"
  /\ UNCHANGED <<aggVars, cleanVars, formVars, objects, response, call, sent>>
  /\ IF p.cvId = NoCvId
       THEN /\ Advance(t, "thrown", << >>)
            /\ UNCHANGED records
     ELSE IF CanWrite(p.cvId, dbOk)
       THEN /\ records' = [records EXCEPT ![p.cvId] = FailureUpdate(@, tasks[t].err)]
            /\ Advance(t, "thrown", <<Event("write", p.cvId, "failed", TRUE)>>)
     ELSE /\ Advance(t, "thrown", <<Event("write", p.cvId, "failed", FALSE)>>)
          /\ UNCHANGED records

Init ==
  /\ aiResponse = [fields |-> << >>]
  /\ returned = Null
  /\ InitSys
  /\ InitForm
  /\ InitClean

Next ==
  \/ \E file \in TaskFiles, timestamp \in TaskTimestamps, triggerOk \in BOOLEAN :
       Upload(file, timestamp, "ok", TRUE, triggerOk) /\ UNCHANGED formVars
  \/ \E payload \in ExternalPayloads : TriggerTask(payload)
  \/ \E t \in 1..Len(tasks), dbOk \in BOOLEAN : Begin(t, dbOk)
  \/ \E t \in 1..Len(tasks), outcome \in {"ok", "fail"} :
       FetchDocument(t, outcome)
  \/ \E t \in 1..Len(tasks), outcome \in ModelOutcomes : CallModel(t, outcome)
  \/ \E t \in 1..Len(tasks), dbOk \in BOOLEAN : WriteResult(t, dbOk)
  \/ \E t \in 1..Len(tasks), dbOk \in BOOLEAN : HandleError(t, dbOk)

Spec == Init /\ [][Next]_vars

\* the steps of run t
RunStep(t) ==
  /\ t \in 1..Len(tasks)
  /\ \/ \E dbOk \in BOOLEAN : Begin(t, dbOk)
     \/ \E outcome \in {"ok", "fail"} : FetchDocument(t, outcome)
     \/ \E outcome \in ModelOutcomes : CallModel(t, outcome)
     \/ \E dbOk \in BOOLEAN : WriteResult(t, dbOk)
     \/ \E dbOk \in BOOLEAN : HandleError(t, dbOk)

\* Spec with every dispatched run scheduled until it ends: the task runner
\* executes a run it accepted to its return or its throw
FairSpec == Spec /\ \A t \in 1..MaxTasks : WF_vars(RunStep(t))

\* the form in the browser, with the services behind the endpoint working
NextForm ==
  \/ \E file \in BrowserFiles : HandleFileChange(file)
  \/ \E timestamp \in TaskTimestamps, triggerOk \in BOOLEAN :
       HandleSubmit(timestamp, "ok", TRUE, triggerOk)

SpecForm == Init /\ [][NextForm]_vars

\* the file chosen while the status query is explored
PollFiles ==
  {f \in BrowserFiles : /\ f.type = "application/pdf"
                        /\ f.file \in TaskFiles
                        /\ f.file.magicBytes = PDF_MAGIC_BYTES}

\* the form with its status query, and the runs its uploads dispatch
NextPoll ==
  \/ \E file \in PollFiles : HandleFileChange(file)
  \/ \E timestamp \in TaskTimestamps, triggerOk \in BOOLEAN :
       HandleSubmit(timestamp, "ok", TRUE, triggerOk)
  \/ ResetForm
  \/ \E dbOk \in BOOLEAN : FetchStatus(dbOk)
  \/ \E t \in 1..Len(tasks) : RunStep(t)

SpecPoll == Init /\ [][NextPoll]_vars

\* the files drawn for calls of the endpoint: every combination of size,
\* first bytes and name, and two accepted files that differ in their bytes
\* only
UploadFiles ==
  {f \in Files : f.bytes = "cvB" =>
                   /\ f.length = 4
                   /\ f.magicBytes = PDF_MAGIC_BYTES
                   /\ f.fileName = LowerName}

\* what putObject, cV.create and tasks.trigger do, up to the first failure
ServiceOutcomes ==
  {<<"ECONNREFUSED", TRUE, TRUE>>, <<"error", TRUE, TRUE>>,
   <<"ok", FALSE, TRUE>>, <<"ok", TRUE, FALSE>>, <<"ok", TRUE, TRUE>>}

\* calls of the upload endpoint with every input and every service outcome
\* (a rejected file reaches no clock and no service)
NextUpload ==
  \E file \in UploadFiles, timestamp \in Timestamps, outcome \in ServiceOutcomes :
    /\ validateFileContent(file) # "ok" =>
         timestamp = 1 /\ outcome = <<"ok", TRUE, TRUE>>
    /\ Upload(file, timestamp, outcome[1], outcome[2], outcome[3])
    /\ UNCHANGED formVars

SpecUpload == Init /\ [][NextUpload]_vars

InitAgg ==
  /\ aiResponse \in [fields : VerdictLists]
  /\ returned = Null
  /\ InitSys
  /\ InitForm
  /\ InitClean

Aggregate ==
  /\ returned = Null
  /\ returned' = processValidationResults(aiResponse)
  /\ UNCHANGED aiResponse
  /\ UNCHANGED <<sysVars, cleanVars, formVars>>

NextAgg == Aggregate

SpecAgg == InitAgg /\ [][NextAgg]_vars

(***************************************************************************)
(* The cleaning of one reply text, for each text of Contents.              *)
(***************************************************************************)
InitText ==
  /\ content \in Contents
  /\ cleanedResponse = Null
  /\ aiResponse = [fields |-> << >>]
  /\ returned = Null
  /\ InitSys
  /\ InitForm

Clean ==
  /\ cleanedResponse = Null
  /\ cleanedResponse' = [text |-> CleanResponse(content),
                         parses |-> Parses(CleanResponse(content))]
  /\ UNCHANGED <<content, aggVars, sysVars, formVars>>

NextText == Clean

SpecText == InitText /\ [][NextText]_vars

(***************************************************************************)
(* Properties of processValidationResults, checked under SpecAgg.  The     *)
(* expected values are counted from the list itself, not taken from the    *)
(* loop's counters.                                                        *)
(***************************************************************************)
Positions(fields, status) == {i \in 1..Len(fields) : fields[i].status = status}

Checked(fields) == {i \in 1..Len(fields) : fields[i].status # "not_found"}

HasReturned == returned # Null

\* m is at least ceil(0.7 * n), for naturals m and n
ReachesSeventyPercent(m, n) == 10 * m >= 7 * n

\* the entries '<field>: <reason>' of the no_match verdicts, in list order
NoMatchEntries(fields) ==
  LET hits == SelectSeq(fields, LAMBDA f : f.status = "no_match")
  IN [i \in 1..Len(hits) |-> hits[i].field \o ": " \o hits[i].reason]

\* C1: overallStatus is 'failed' when some verdict is no_match; otherwise
\* 'validated' when every checked verdict is match or when matchCount +
\* partialMatchCount >= ceil(totalChecked * 0.7); otherwise 'failed'.
C1_OverallStatusRule ==
  HasReturned =>
    LET fields == aiResponse.fields
        matches == Cardinality(Positions(fields, "match"))
        partials == Cardinality(Positions(fields, "partial_match"))
    IN returned.overallStatus =
         IF Positions(fields, "no_match") # {} THEN "failed"
         ELSE IF \/ \A i \in Checked(fields) : fields[i].status = "match"
                 \/ ReachesSeventyPercent(matches + partials,
                                          Cardinality(Checked(fields)))
           THEN "validated"
         ELSE "failed"

\* C1 witness: 10 checked verdicts, 7 match and 3 partial_match, validated
C1_SevenOfTenValidated ==
  /\ HasReturned
  /\ Len(aiResponse.fields) = 10
  /\ Cardinality(Positions(aiResponse.fields, "match")) = 7
  /\ Cardinality(Positions(aiResponse.fields, "partial_match")) = 3
  /\ returned.overallStatus = "validated"

\* C2: with at least one no_match verdict the outcome is 'failed' and the
\* error list is exactly the '<field>: <reason>' entries of the no_match
\* verdicts, in the verdicts' order.
C2_NoMatchFailsWithOneErrorEach ==
  (HasReturned /\ Positions(aiResponse.fields, "no_match") # {}) =>
    /\ returned.overallStatus = "failed"
    /\ returned.errors = NoMatchEntries(aiResponse.fields)

\* C2 witness: 10 checked verdicts, 8 of them match or partial_match (above
\* the 70% figure), 2 no_match: failed with two entries
C2_EightOfTenStillFailed ==
  /\ HasReturned
  /\ Cardinality(Checked(aiResponse.fields)) = 10
  /\ Cardinality(Positions(aiResponse.fields, "match")) = 5
  /\ Cardinality(Positions(aiResponse.fields, "partial_match")) = 3
  /\ Cardinality(Positions(aiResponse.fields, "no_match")) = 2
  /\ returned.overallStatus = "failed"
  /\ Len(returned.errors) = 2

\* C3 (as claimed): a non-empty list of not_found verdicts only yields
\* totalChecked = 0, 'failed' and the single generic message.
C3_AllNotFoundFails ==
  (/\ HasReturned
   /\ Len(aiResponse.fields) > 0
   /\ \A i \in 1..Len(aiResponse.fields) : aiResponse.fields[i].status = "not_found") =>
    /\ returned.processedResults.summary.totalChecked = 0
    /\ returned.overallStatus = "failed"
    /\ returned.errors = <<InsufficientMatches>>

\* C4: a list of match verdicts only, of any length, yields 'validated' and
\* an empty error list.
C4_AllMatchValidated ==
  (/\ HasReturned
   /\ \A i \in 1..Len(aiResponse.fields) : aiResponse.fields[i].status = "match") =>
    /\ returned.overallStatus = "validated"
    /\ returned.errors = << >>

\* C4 witness: ten match verdicts, validated without errors
C4_TenMatchesValidated ==
  /\ HasReturned
  /\ Len(aiResponse.fields) = 10
  /\ Positions(aiResponse.fields, "match") = 1..10
  /\ returned.overallStatus = "validated"
  /\ returned.errors = << >>

\* C5: 'failed' comes with a non-empty error list: the no_match entries
\* when there are any, otherwise exactly the generic message.
C5_FailedHasErrors ==
  (HasReturned /\ returned.overallStatus = "failed") =>
    /\ Len(returned.errors) > 0
    /\ returned.errors =
         IF Positions(aiResponse.fields, "no_match") # {}
           THEN NoMatchEntries(aiResponse.fields)
           ELSE <<InsufficientMatches>>

\* C5 witness: failure on the threshold alone, reported by the generic message
C5_ThresholdFailure ==
  /\ HasReturned
  /\ Positions(aiResponse.fields, "no_match") = {}
  /\ returned.overallStatus = "failed"
  /\ returned.errors = <<InsufficientMatches>>

(***************************************************************************)
(* Properties of the validation task and the records, checked under Spec.  *)
(***************************************************************************)
Terminal(status) == status \in {"validated", "failed"}

Runs == 1..Len(tasks)

\* the payload does not pass CVValidationPayload.parse (stated on the payload
\* itself)
Malformed(payload) == payload.cvId = NoCvId \/ ~payload.formDataOk

\* run t has, at some point, written status `value` to record id
HasWritten(t, id, value) ==
  \E k \in 1..Len(tasks[t].trace) :
    tasks[t].trace[k] = Event("write", id, value, TRUE)

RunsNaming(id) == {t \in Runs : tasks[t].payload.cvId = id}

RaisedMessages ==
  {ZodError, RecordNotFound, DatabaseDown, DownloadFailed, OpenRouterError,
   NoResponse, JsonSyntaxError}

\* C6 (as claimed): a record is created pending and every change of its
\* validationStatus is pending -> validating, validating -> validated or
\* validating -> failed.
C6_OnlyForwardTransitions ==
  [][\A id \in RecordIds :
       IF records[id] = Null
         THEN records'[id] # Null => records'[id].validationStatus = "pending"
         ELSE records'[id].validationStatus # records[id].validationStatus =>
                <<records[id].validationStatus, records'[id].validationStatus>> \in
                  {<<"pending", "validating">>, <<"validating", "validated">>,
                   <<"validating", "failed">>}]_vars

\* C6 (amended): a record is created pending and never returns to pending;
\* it changes to validating only by a run whose payload passed the check, to
\* validated only by a run that itself set it to validating before, and to
\* failed from any status.
C6_StatusTransitions ==
  [][\A id \in RecordIds :
       IF records[id] = Null
         THEN records'[id] # Null => records'[id].validationStatus = "pending"
         ELSE records'[id].validationStatus # records[id].validationStatus =>
                /\ records'[id].validationStatus \in {"validating", "validated", "failed"}
                /\ records'[id].validationStatus = "validating" =>
                     \E t \in Runs : /\ tasks[t].pc = "queued"
                                     /\ tasks'[t].pc = "validating"
                                     /\ tasks[t].payload.cvId = id
                                     /\ ~Malformed(tasks[t].payload)
                /\ records'[id].validationStatus = "validated" =>
                     \E t \in Runs : /\ tasks[t].pc = "replied"
                                     /\ tasks'[t].pc = "done"
                                     /\ HasWritten(t, id, "validating")]_vars

\* C6 witness: a record that is failed although no run ever set it to
\* validating
C6_FailedWithoutValidating ==
  \E id \in Created :
    /\ records[id].validationStatus = "failed"
    /\ \A t \in Runs : ~HasWritten(t, id, "validating")

\* C7 (as claimed): once a run has thrown, its record is failed with the
\* raised error's message as the only error (for a run that is the only one
\* naming an existing record).
C7_ThrowEndsFailed ==
  \A t \in Runs :
    (/\ tasks[t].pc = "thrown"
     /\ Exists(tasks[t].payload.cvId)
     /\ RunsNaming(tasks[t].payload.cvId) = {t}) =>
      /\ records[tasks[t].payload.cvId].validationStatus = "failed"
      /\ records[tasks[t].payload.cvId].validationErrors = <<tasks[t].err>>

\* C7 (amended): the catch block makes one attempt to set the record named
\* by payload.cvId (when present) to failed with the raised error's message
\* as the only error; when the update succeeds the record holds exactly
\* that, when it fails nothing is written; the run re-raises the error.
C7_CatchWritesFailedOnce ==
  [][\A t \in Runs :
       (tasks[t].pc = "catch" /\ tasks'[t].pc = "thrown") =>
         LET id == tasks[t].payload.cvId
             attempt == Event("write", id, "failed", TRUE)
             missed == Event("write", id, "failed", FALSE)
         IN /\ tasks'[t].err = tasks[t].err
            /\ tasks[t].err \in RaisedMessages
            /\ \/ /\ id # NoCvId
                  /\ tasks'[t].trace = Append(tasks[t].trace, attempt)
                  /\ records'[id].validationStatus = "failed"
                  /\ records'[id].validationErrors = <<tasks[t].err>>
                  /\ \A other \in RecordIds \ {id} : records'[other] = records[other]
               \/ /\ id # NoCvId
                  /\ tasks'[t].trace = Append(tasks[t].trace, missed)
                  /\ records' = records
               \/ /\ id = NoCvId
                  /\ tasks'[t].trace = tasks[t].trace
                  /\ records' = records]_vars

\* C7 witness: a run that threw on the JSON parse and whose record is failed
\* with that message
C7_ParseErrorRecorded ==
  \E t \in Runs :
    /\ tasks[t].pc = "thrown"
    /\ tasks[t].err = JsonSyntaxError
    /\ Exists(tasks[t].payload.cvId)
    /\ records[tasks[t].payload.cvId].validationStatus = "failed"
    /\ records[tasks[t].payload.cvId].validationErrors = <<JsonSyntaxError>>

\* C8 (as claimed): once a record is validated or failed, no step changes
\* its validationStatus, validationResults or validationErrors.
C8_TerminalAbsorbing ==
  [][\A id \in RecordIds :
       (records[id] # Null /\ Terminal(records[id].validationStatus)) =>
         /\ records'[id].validationStatus = records[id].validationStatus
         /\ records'[id].validationResults = records[id].validationResults
         /\ records'[id].validationErrors = records[id].validationErrors]_vars

\* C8 (amended): the run an upload triggers names the record that upload
\* created, and a validated or failed record changes only when a second run
\* of the task names the same record.
C8_TerminalChangedOnlyByAnotherRun ==
  [][/\ \A id \in RecordIds :
          (/\ records[id] # Null
           /\ Terminal(records[id].validationStatus)
           /\ records'[id] # records[id]) =>
            Cardinality(RunsNaming(id)) >= 2
     /\ (records' # records /\ Len(tasks') > Len(tasks)) =>
          /\ records[tasks'[Len(tasks')].payload.cvId] = Null
          /\ records'[tasks'[Len(tasks')].payload.cvId].validationStatus = "pending"]_vars

\* C8 witness: a record that one run brought to a terminal status and a
\* second run naming it has put back to validating
C8_TerminalOverwritten ==
  \E id \in Created : \E t1, t2 \in RunsNaming(id) :
    /\ t1 # t2
    /\ tasks[t1].pc \in {"done", "thrown"}
    /\ HasWritten(t1, id, "validated") \/ HasWritten(t1, id, "failed")
    /\ tasks[t2].pc = "validating"
    /\ records[id].validationStatus = "validating"
    /\ records[id].validatedAt

\* C9 (as claimed): a validated or failed record stores results whose
\* fields aggregate to the stored status.
C9_TerminalHasJustifyingResults ==
  \A id \in Created :
    Terminal(records[id].validationStatus) =>
      /\ records[id].validationResults # Null
      /\ processValidationResults([fields |-> records[id].validationResults.fields]).overallStatus
           = records[id].validationStatus

\* C9 (amended): a validated record stores results whose fields aggregate to
\* validated, with the aggregation's (empty) errors; a failed record either
\* stores results and errors of an aggregation that failed, or holds one
\* raised error message, its results being null or an earlier run's.
C9_ValidatedHasJustifyingResults ==
  \A id \in Created :
    LET rec == records[id]
        agg == processValidationResults([fields |-> rec.validationResults.fields])
    IN /\ rec.validationStatus = "validated" =>
            /\ rec.validationResults # Null
            /\ agg.overallStatus = "validated"
            /\ rec.validationResults = agg.processedResults
            /\ rec.validationErrors = agg.errors
       /\ rec.validationStatus = "failed" =>
            \/ /\ rec.validationResults # Null
               /\ agg.overallStatus = "failed"
               /\ rec.validationErrors = agg.errors
            \/ \E m \in RaisedMessages : rec.validationErrors = <<m>>

\* C9 witness: a validated record holding the verdicts that justify it
C9_ValidatedWithResults ==
  \E id \in Created :
    /\ records[id].validationStatus = "validated"
    /\ records[id].validationResults # Null
    /\ records[id].validationResults.summary.matchCount = 1

\* C10 (as claimed): a run whose payload fails the shape check writes no
\* record, fetches no document and calls no model.
C10_MalformedNoSideEffect ==
  \A t \in Runs :
    Malformed(tasks[t].payload) =>
      \A k \in 1..Len(tasks[t].trace) :
        ~(tasks[t].trace[k].op = "write" /\ tasks[t].trace[k].ok)
          /\ tasks[t].trace[k].op \notin {"fetch", "model"}

\* C10 (amended): a run whose payload fails the shape check fetches no
\* document, calls no model and never writes validating; the one write it
\* attempts is the catch block's update of the record named by payload.cvId
\* to failed, and it attempts none when cvId is absent.
C10_MalformedOnlyFailureWrite ==
  \A t \in Runs :
    Malformed(tasks[t].payload) =>
      /\ tasks[t].pc \in {"queued", "catch", "thrown"}
      /\ tasks[t].pc = "thrown" => tasks[t].err = ZodError
      /\ Len(tasks[t].trace) <= 1
      /\ \A k \in 1..Len(tasks[t].trace) :
           /\ tasks[t].trace[k].op = "write"
           /\ tasks[t].trace[k].value = "failed"
           /\ tasks[t].trace[k].id = tasks[t].payload.cvId
           /\ tasks[t].payload.cvId # NoCvId
           /\ tasks[t].pc = "thrown"

\* C10 witness: a run with a malformed payload that names an existing
\* record has thrown, and the record is failed with the parse error
C10_MalformedRecordedAsFailed ==
  \E t \in Runs :
    /\ Malformed(tasks[t].payload)
    /\ tasks[t].pc = "thrown"
    /\ Exists(tasks[t].payload.cvId)
    /\ tasks[t].trace = <<Event("write", tasks[t].payload.cvId, "failed", TRUE)>>
    /\ records[tasks[t].payload.cvId].validationErrors = <<ZodError>>

\* the updates run t has issued, in the order it issued them
Writes(t) == SelectSeq(tasks[t].trace, LAMBDA e : e.op = "write")

\* those of them the database applied
Applied(t) == SelectSeq(Writes(t), LAMBDA e : e.ok)

\* C11 (as claimed): a run writes only the record named by its payload's
\* cvId, and at most twice; it performs no third write, also when the write
\* of the outcome fails.
C11_AtMostTwoWrites ==
  \A t \in Runs :
    /\ \A k \in 1..Len(Writes(t)) : Writes(t)[k].id = tasks[t].payload.cvId
    /\ Len(Writes(t)) <= 2

\* C11 (amended): a run writes only the record named by its payload's cvId;
\* at most two of its updates are applied, the first to validating and the
\* second to a terminal status; it issues a third update exactly when the
\* update that stores the outcome is rejected, and that third one is the
\* catch block's update to failed.
C11_AtMostTwoAppliedWrites ==
  \A t \in Runs :
    LET w == Writes(t)
        a == Applied(t)
    IN /\ \A k \in 1..Len(w) : w[k].id = tasks[t].payload.cvId
       /\ Len(a) <= 2
       /\ Len(a) = 2 => a[1].value = "validating" /\ Terminal(a[2].value)
       /\ Len(w) <= 3
       /\ Len(w) = 3 => /\ w[1].value = "validating" /\ w[1].ok
                        /\ Terminal(w[2].value) /\ ~w[2].ok
                        /\ w[3].value = "failed"

\* C11 witness: a run whose update of the outcome was rejected has issued
\* three updates, two of them applied, and its record is failed
C11_ThirdWriteAfterRejectedResult ==
  \E t \in Runs :
    /\ tasks[t].pc = "thrown"
    /\ Len(Writes(t)) = 3
    /\ Len(Applied(t)) = 2
    /\ records[tasks[t].payload.cvId].validationStatus = "failed"

\* C12: no update of the task depends on what the record currently holds,
\* so runs naming the same record overwrite each other and the last writer
\* wins: whatever the record's status, a queued run can set it to
\* validating, a run holding a reply can store its outcome and results, and
\* a run in its catch block can set failed with its own message while the
\* stored results stay as another run left them.
C12_WritesIgnoreCurrentStatus ==
  \A t \in Runs :
    LET id == tasks[t].payload.cvId IN
    Exists(id) =>
      /\ (tasks[t].pc = "queued" /\ ~Malformed(tasks[t].payload)) =>
           ENABLED (/\ Begin(t, TRUE)
                    /\ records'[id].validationStatus = "validating"
                    /\ records'[id].validationResults = records[id].validationResults
                    /\ records'[id].validationErrors = records[id].validationErrors)
      /\ tasks[t].pc = "replied" =>
           ENABLED (/\ WriteResult(t, TRUE)
                    /\ Terminal(records'[id].validationStatus)
                    /\ records'[id].validationResults # Null
                    /\ records'[id].validationResults.fields = tasks[t].reply)
      /\ tasks[t].pc = "catch" =>
           ENABLED (/\ HandleError(t, TRUE)
                    /\ records'[id].validationStatus = "failed"
                    /\ records'[id].validationErrors = <<tasks[t].err>>
                    /\ records'[id].validationResults = records[id].validationResults)

\* C12 witness: two runs name one record; the first stored 'validated' with
\* its results, the second never received a reply and its catch block wrote
\* failed over it, so the record is failed with the first run's results
C12_FailedWithOtherRunsResults ==
  \E id \in Created : \E t1, t2 \in RunsNaming(id) :
    /\ t1 # t2
    /\ HasWritten(t1, id, "validated")
    /\ tasks[t2].pc = "thrown"
    /\ HasWritten(t2, id, "failed")
    /\ \A k \in 1..Len(tasks[t2].trace) : tasks[t2].trace[k].op # "model"
    /\ records[id].validationStatus = "failed"
    /\ records[id].validationErrors = <<tasks[t2].err>>
    /\ records[id].validationResults # Null

\* C13: the summary counts are the numbers of verdicts of each status:
\* matchCount, partialMatchCount and noMatchCount count the verdicts with
\* status match, partial_match and no_match, and totalChecked counts the
\* verdicts whose status is not not_found.
C13_SummaryCountsVerdicts ==
  HasReturned =>
    LET fields == aiResponse.fields
        summary == returned.processedResults.summary
    IN /\ summary.matchCount = Cardinality(Positions(fields, "match"))
       /\ summary.partialMatchCount = Cardinality(Positions(fields, "partial_match"))
       /\ summary.noMatchCount = Cardinality(Positions(fields, "no_match"))
       /\ summary.totalChecked = Cardinality(Checked(fields))

\* C13 witness: a summary of a list holding verdicts of every status, with
\* fewer checked verdicts than verdicts
C13_EveryStatusCounted ==
  /\ HasReturned
  /\ \A status \in Statuses : Positions(aiResponse.fields, status) # {}
  /\ returned.processedResults.summary.matchCount = 2
  /\ returned.processedResults.summary.totalChecked < Len(aiResponse.fields)

\* sum of the confidences at the positions in S
RECURSIVE ConfidenceAt(_, _)
ConfidenceAt(fields, S) ==
  IF S = {} THEN 0
  ELSE LET i == CHOOSE i \in S : TRUE
       IN fields[i].confidence + ConfidenceAt(fields, S \ {i})

\* C14: overallConfidence is the arithmetic mean of the confidences of all
\* verdicts, not_found ones included, and 0 for an empty list; for the
\* confidences [0.9, 0.8, 1.0] it is 0.9.
C14_ConfidenceIsMeanOfAll ==
  HasReturned =>
    LET fields == aiResponse.fields
        mean == returned.processedResults.summary.overallConfidence
    IN /\ mean.den > 0
       /\ Len(fields) = 0 => mean.num = 0
       /\ Len(fields) > 0 =>
            mean.num * Len(fields) = ConfidenceAt(fields, DOMAIN fields) * mean.den
       /\ [i \in DOMAIN fields |-> fields[i].confidence] = <<90, 80, 100>> =>
            mean.num = 90 * mean.den

\* C14 witness: the mean of [0.9, 0.8, 1.0] with a not_found verdict among
\* the three has been computed as 0.9
C14_MeanOfThree ==
  /\ HasReturned
  /\ [i \in DOMAIN aiResponse.fields |-> aiResponse.fields[i].confidence] = <<90, 80, 100>>
  /\ aiResponse.fields[2].status = "not_found"
  /\ returned.processedResults.summary.overallConfidence.num = 270
  /\ returned.processedResults.summary.overallConfidence.den = 3

LastWriteRejected(t) ==
  /\ Len(Writes(t)) > 0
  /\ ~Writes(t)[Len(Writes(t))].ok

\* C16 (as claimed): after an upload has returned success, its record
\* eventually reaches a terminal status, the dispatched run being scheduled
\* fairly.
C16_UploadedEventuallyTerminal ==
  \A id \in RecordIds :
    (response # Null /\ response.success /\ response.id = id)
      ~> (Exists(id) /\ Terminal(records[id].validationStatus))

\* C16 (amended): every dispatched run that names an existing record
\* eventually ends, and at its end the record is in a terminal status
\* unless the database rejected the run's last update.
C16_DispatchedRunEndsTerminal ==
  \A t \in 1..MaxTasks :
    (/\ t \in Runs
     /\ Exists(tasks[t].payload.cvId)
     /\ tasks[t].pc \notin {"done", "thrown"})
      ~> (/\ t \in Runs
          /\ Exists(tasks[t].payload.cvId)
          /\ tasks[t].pc \in {"done", "thrown"}
          /\ \/ Terminal(records[tasks[t].payload.cvId].validationStatus)
             \/ LastWriteRejected(t))

\* C16 witness: the run dispatched by the last successful upload has
\* returned and the uploaded record is in a terminal status
C16_UploadedRunFinished ==
  \E t \in Runs :
    /\ response # Null
    /\ response.success
    /\ tasks[t].payload = UploadPayload(response.id, records[response.id].fileUrl)
    /\ tasks[t].pc = "done"
    /\ Terminal(records[response.id].validationStatus)

\* a PDF document of the browser: typed, named and starting as one
IsPdfDocument(file) ==
  /\ file.type = "application/pdf"
  /\ file.file.magicBytes = PDF_MAGIC_BYTES
  /\ file.file.fileName \in {LowerName, UpperName}

\* an image of the browser: typed, named and starting as one
IsImage(file) ==
  /\ file.type = "image/png"
  /\ file.file.magicBytes = PNG_MAGIC_BYTES
  /\ file.file.fileName = ImageName

\* C17: a CV that is a PDF or an image of at most 10MB is accepted by the
\* form's check (it becomes formData.cvFile and no message is shown) and,
\* once submitted, by the endpoint (the upload succeeds).
C17_PdfOrImageAccepted ==
  (/\ picked # Null
   /\ IsPdfDocument(picked) \/ IsImage(picked)
   /\ picked.file.length <= MAX_FILE_SIZE) =>
     /\ cvFile = picked
     /\ formErrorMessage = ""
     /\ (call # Null /\ call.file = picked.file) => response.success

\* the rejection the claims expect for an upload, "none" when it passes:
\* more than 10MB, then first four bytes other than %PDF, then a name not
\* ending in .pdf in any letter case
ExpectedRejection(file) ==
  IF file.length > 10485760
    THEN "File too large. Maximum size is 10MB"
  ELSE IF file.magicBytes # <<37, 80, 68, 70>>
    THEN "Invalid file format. Only PDF files are allowed."
  ELSE IF file.fileName \notin {LowerName, UpperName}
    THEN "Invalid file extension. Only .pdf files are allowed."
  ELSE "none"

C19_TriggerFailureStillSucceeds ==
  [][call'.trigger = "error" =>
       LET id == response'.id IN
       /\ response'.success
       /\ response'.message = UploadSuccess
       /\ id \in RecordIds
       /\ records[id] = Null
       /\ records'[id] # Null
       /\ records'[id].validationStatus = "pending"
       /\ records'[id].validationErrors = << >>
       /\ \E o \in objects' : o.name = records'[id].fileUrl
       /\ tasks' = tasks]_vars

\* C19 witness: the last upload's trigger failed; it returned success, its
\* record is pending and no run names it
C19_PendingWithoutRun ==
  /\ call # Null
  /\ call.trigger = "error"
  /\ response.success
  /\ records[response.id].validationStatus = "pending"
  /\ \A t \in Runs : tasks[t].payload.cvId # response.id

\* C20: every successful upload stores its document under an object name
\* that no other upload uses, so no upload replaces another's object and
\* each record's fileUrl resolves to the bytes its own upload sent.
C20_ObjectNamesUnique ==
  /\ \A id1, id2 \in Created :
       id1 # id2 => records[id1].fileName # records[id2].fileName
  /\ \A id \in Created :
       \E o \in objects : o.name = records[id].fileUrl /\ o.bytes = sent[id]

\* C21: the status query's 3-second refetch timer runs exactly while an id
\* is held and the last fetched status is pending or validating; it is off
\* once any other status was fetched; without an id returned by a
\* successful upload nothing is fetched; a fetch made by the timer follows
\* fetched data.
C21_PollsWhilePendingOrValidating ==
  /\ query.interval \in {0, 3000}
  /\ query.interval = 3000 <=>
       /\ cvId # NoCvId
       /\ query.data # Null
       /\ query.data.validationStatus \in {"pending", "validating"}
  /\ cvId = NoCvId => query.fetched = "none" /\ query.data = Null
  /\ cvId # NoCvId => Exists(cvId)
  /\ query.fetched = "interval" => query.data # Null

\* C21 witness: after polling, a fetch made by the timer returned a terminal
\* status and the timer is off
C21_StoppedAfterTerminal ==
  /\ cvId # NoCvId
  /\ query.fetched = "interval"
  /\ query.data.validationStatus \in {"validated", "failed"}
  /\ query.interval = 0

AllTyped(fields) ==
  \A i \in 1..Len(fields) :
    fields[i].status \in {"match", "partial_match", "no_match", "not_found"}

\* C23: a verdict list whose statuses are all among match, partial_match,
\* no_match and not_found and that holds no no_match verdict (the empty
\* list included) yields 'validated'; 'failed' without a no_match verdict,
\* and the generic 'Insufficient matches' message, occur only when some
\* verdict has a status outside the four.
C23_ThresholdFailureNeedsUntypedStatus ==
  HasReturned =>
    LET fields == aiResponse.fields
        noNoMatch == Positions(fields, "no_match") = {}
    IN /\ (AllTyped(fields) /\ noNoMatch) =>
            returned.overallStatus = "validated" /\ returned.errors = << >>
       /\ (returned.overallStatus = "failed" /\ noNoMatch) => ~AllTyped(fields)
       /\ (\E k \in 1..Len(returned.errors) : returned.errors[k] = InsufficientMatches)
            => ~AllTyped(fields)

\* C23 witness: a typed list without a match and without a no_match, made
\* of partial matches and not-found verdicts, has been validated
C23_PartialAndNotFoundValidated ==
  /\ HasReturned
  /\ AllTyped(aiResponse.fields)
  /\ Positions(aiResponse.fields, "match") = {}
  /\ Positions(aiResponse.fields, "no_match") = {}
  /\ Positions(aiResponse.fields, "partial_match") # {}
  /\ Cardinality(Positions(aiResponse.fields, "not_found")) = 2
  /\ returned.overallStatus = "validated"

\* the attribute values a list is rewritten with
Attributes ==
  [field : {"fullName", "email"}, confidence : {0, 100},
   reason : {"differs", "absent"}, extractedValue : {"Jane"}]

\* the list with every verdict's status kept and its other attributes
\* replaced by attrs
WithAttributes(fields, attrs) ==
  [i \in 1..Len(fields) |->
     [field |-> attrs.field, status |-> fields[i].status,
      confidence |-> attrs.confidence, reason |-> attrs.reason,
      extractedValue |-> attrs.extractedValue]]

\* the overall outcome and the summary counts of a result
Outcome(result) ==
  [overallStatus |-> result.overallStatus,
   totalChecked |-> result.processedResults.summary.totalChecked,
   matchCount |-> result.processedResults.summary.matchCount,
   partialMatchCount |-> result.processedResults.summary.partialMatchCount,
   noMatchCount |-> result.processedResults.summary.noMatchCount]

\* C24: overallStatus and the summary counts depend only on the sequence of
\* statuses: the list gives the same ones as the list with the same
\* statuses and any other field names, confidences, reasons and extracted
\* values, so any two lists with the same statuses in the same order agree.
C24_OutcomeDependsOnStatusesOnly ==
  HasReturned =>
    \A attrs \in Attributes :
      Outcome(returned) =
        Outcome(processValidationResults(
                  [fields |-> WithAttributes(aiResponse.fields, attrs)]))

\* C24 witness: three matches, one of them with confidence 0 and another
\* with confidence 1, have been counted as three matches and validated
C24_ZeroConfidenceMatchCounts ==
  /\ HasReturned
  /\ Len(aiResponse.fields) = 3
  /\ \A i \in 1..3 : aiResponse.fields[i].status = "match"
  /\ aiResponse.fields[1].confidence = 0
  /\ aiResponse.fields[2].confidence = 100
  /\ returned.processedResults.summary.matchCount = 3
  /\ returned.overallStatus = "validated"

\* C25 (as claimed): a record's validatedAt is set if and only if its
\* validationStatus is validated or failed.
C25_ValidatedAtIffTerminal ==
  \A id \in Created :
    records[id].validatedAt <=> Terminal(records[id].validationStatus)

\* C25 (amended): a record that is validated or failed has validatedAt set
\* (every write of a terminal status sets it) and a pending record has
\* none; a validating record has none unless some run had written a
\* terminal status to it before, the update to validating leaving
\* validatedAt as it was.
C25_ValidatedAtSetByTerminalWrites ==
  \A id \in Created :
    /\ Terminal(records[id].validationStatus) => records[id].validatedAt
    /\ records[id].validationStatus = "pending" => ~records[id].validatedAt
    /\ (records[id].validationStatus = "validating" /\ records[id].validatedAt) =>
         \E t \in Runs : HasWritten(t, id, "validated") \/ HasWritten(t, id, "failed")

\* C25 witness: a record validated by one run is being validated again by
\* another and still carries the first run's validatedAt
C25_ValidatingWithValidatedAt ==
  \E id \in Created : \E t1, t2 \in RunsNaming(id) :
    /\ tasks[t1].pc = "done"
    /\ tasks[t2].pc = "validating"
    /\ records[id].validationStatus = "validating"
    /\ records[id].validatedAt

====
